---- MODULE Spec2Model ----
(***************************************************************************)
(* Agent execution engine (agent/engine.py), its session state             *)
(* (agent/state.py) and the tool registry it dispatches through            *)
(* (tools/base.py, tools/filesystem.py, tools/todo.py).                    *)
(*                                                                         *)
(* One run() call is cut at the only points where control leaves the       *)
(* engine: the call of the model backend.  RunCall covers run() from its   *)
(* entry to the first backend call (or to its return), BackendReturns      *)
(* covers everything from the backend's answer to the next backend call    *)
(* (or to the return of run()), BackendRaises covers the top-level         *)
(* exception handler.                                                      *)
(*                                                                         *)
(* Python values are represented as follows.  An Optional value is None    *)
(* (the empty tuple) or Some(v) (a one-element tuple).  A formatted string *)
(* f"...{a}...{b}" is the record Fmt(template, <<a, b>>).  A dict is a      *)
(* function from its keys.  An exception is an outcome record with         *)
(* raised = TRUE, never a TLA+ error.                                      *)
(***************************************************************************)
EXTENDS Integers, Sequences, FiniteSets, TLC

VARIABLES
    state,           \* AgentEngine.state : AgentState
    tools,           \* AgentEngine.tools : ToolRegistry._tools, in insertion order
    max_iterations,  \* AgentEngine.max_iterations
    pc,              \* position of run(): "idle", "backend", "returned", "raised"
    response,        \* run()'s local `response`, the last AgentResponse received
    success,         \* run()'s local `success`, the last return value of _execute_tool_calls
    result,          \* the AgentResult returned by the last run() call, if any
    dispatch_log,    \* per call of the last batch: what execute_tool was asked and answered
    hist             \* bookkeeping about the current run() call, read by the properties only:
                     \*   runs            run() calls made on the engine
                     \*   passes          loop passes of the current call
                     \*   backend_calls   backend calls of the current call
                     \*   tool_calls      tool calls requested since the engine was built
                     \*   entry_count     iteration_count when the current call was entered
                     \*   at_call         the conversation handed to the last backend call
                     \*   results         AgentResults the current call has returned
                     \*   backend_raised  the backend raised in the current call
                     \*   idle_only       every answer of the current call had no tool
                     \*                   calls and should_continue = TRUE

vars == <<state, tools, max_iterations, pc, response, success, result, dispatch_log, hist>>

----------------------------------------------------------------------------
(* Bounds of the model *)

MaxIter == 2        \* max_iterations ranges over 0..MaxIter
MaxInitCount == 1   \* iteration_count of the AgentState handed to the engine: 0..MaxInitCount
MaxBatch == 2       \* tool calls in one backend response
MaxToolCalls == 2   \* tool calls requested by the backend over the life of one engine
MaxRuns == 2        \* run() calls on one engine

----------------------------------------------------------------------------
(* Python values *)

None == <<>>
Some(v) == <<v>>
IsNone(o) == o = <<>>
Get(o) == o[1]

EmptyDict == [k \in {} |-> ""]

Fmt(template, args) == [fmt |-> template, args |-> args]
Lit(s) == Fmt(s, <<>>)
\* f"<prefix>{str(t)}"
Prefixed(prefix, t) == Fmt(prefix \o t.fmt, t.args)

----------------------------------------------------------------------------
(* tools/base.py : ToolResult *)

ToolResult(ok, data, error) == [success |-> ok, data |-> data, error |-> error]

\* The outcome of a Python call: it returned `value`, or it raised `exc`.
Returned(v) == [raised |-> FALSE, exc |-> Lit(""), value |-> v]
Raised(e) == [raised |-> TRUE, exc |-> e, value |-> ToolResult(FALSE, None, None)]

\* structured data of a ToolResult: its Python type and its flattened items
Data(type, items) == [type |-> type, items |-> items]
\* Python truthiness of a ToolResult.data value (None, empty dict and "" are falsy)
Truthy(data) == ~IsNone(data) /\ Get(data).items /= <<>>

----------------------------------------------------------------------------
(* The project tree the filesystem tools run against *)

ProjectFiles == {"a.py"}
ProjectDirs == {"."}

----------------------------------------------------------------------------
(* tools/todo.py : TodoItem, TodoList *)

TodoItem(number, text, completed) == [number |-> number, text |-> text, completed |-> completed]

NewTodoList == [items |-> <<>>, next_number |-> 1]

\* str.strip() on the texts the model uses
strip(text) ==
    CASE text = " " -> ""
      [] text = " b " -> "b"
      [] OTHER -> text

\* add that leaves the counter of the list where it was
TodoList_add_stuck(tl, text) ==
    [items |-> Append(tl.items, TodoItem(tl.next_number, text, FALSE)),
     next_number |-> tl.next_number]

TodoList_add(tl, text) ==
    [items |-> Append(tl.items, TodoItem(tl.next_number, text, FALSE)),
     next_number |-> tl.next_number + 1]

\* index of the first item with the given number, 0 if there is none
find_item(tl, number) ==
    IF \A i \in 1..Len(tl.items) : tl.items[i].number /= number THEN 0
    ELSE CHOOSE i \in 1..Len(tl.items) :
            /\ tl.items[i].number = number
            /\ \A j \in 1..(i - 1) : tl.items[j].number /= number

\* edit_item that gives the edited item the number after its own
edit_item_renumbering(item, status, text) ==
    [number |-> item.number + 1,
     text |-> IF IsNone(text) THEN item.text ELSE Get(text),
     completed |-> IF IsNone(status) THEN item.completed ELSE Get(status)]

\* lines 59-62: the assignments to the item found
edit_item(item, status, text) ==
    [number |-> item.number,
     text |-> IF IsNone(text) THEN item.text ELSE Get(text),
     completed |-> IF IsNone(status) THEN item.completed ELSE Get(status)]

edit_at(tl, i, status, text) ==
    IF i = 0 THEN [found |-> FALSE, list |-> tl]
    ELSE [found |-> TRUE, list |-> [tl EXCEPT !.items[i] = edit_item(@, status, text)]]

TodoList_edit(tl, number, status, text) == edit_at(tl, find_item(tl, number), status, text)

\* TodoList.clear()
TodoList_clear(tl) == NewTodoList

\* to_markdown of an item that shows every item as pending
TodoItem_to_markdown_pending(it) ==
    "- " \o "[ ]" \o " " \o ToString(it.number) \o ". " \o it.text

TodoItem_to_markdown(it) ==
    "- " \o (IF it.completed THEN "[x]" ELSE "[ ]") \o " " \o ToString(it.number)
         \o ". " \o it.text

RECURSIVE join(_, _)
\* sep.join(lines)
join(sep, lines) ==
    IF lines = <<>> THEN ""
    ELSE IF Len(lines) = 1 THEN lines[1]
    ELSE lines[1] \o sep \o join(sep, Tail(lines))

TodoList_to_markdown(tl) ==
    IF tl.items = <<>> THEN "No todos yet."
    ELSE join("\n", [i \in 1..Len(tl.items) |-> TodoItem_to_markdown(tl.items[i])])

stats_of(total, completed) ==
    [total_items |-> total, completed_items |-> completed, pending_items |-> total - completed]

TodoList_get_stats(tl) ==
    stats_of(Len(tl.items), Cardinality({i \in 1..Len(tl.items) : tl.items[i].completed}))

----------------------------------------------------------------------------
(* Tool.execute(kwargs) of the five tools agentic_task registers.  Each   *)
(* returns the outcome of the call and the todo list it leaves behind.      *)

\* Python's binding of **kwargs to a signature with the given required and
\* optional parameter names
Binds(kwargs, required, optional) ==
    /\ required \subseteq DOMAIN kwargs
    /\ DOMAIN kwargs \subseteq (required \cup optional)

Kw(kwargs, k) == IF k \in DOMAIN kwargs THEN Some(kwargs[k]) ELSE None

BindError(fn) == Fmt("{}() got an unexpected or is missing a required keyword argument", <<fn>>)

ToolOutcome(out, tl) == [out |-> out, todo |-> tl]

Succeeded(data, tl) == ToolOutcome(Returned(ToolResult(TRUE, Some(data), None)), tl)
Failed(error, tl) == ToolOutcome(Returned(ToolResult(FALSE, None, Some(error))), tl)

tree_of(path, tl) ==
    IF path \in ProjectDirs THEN Succeeded(Data("dict", <<"tree", "path", path>>), tl)
    ELSE IF path \in ProjectFiles THEN Failed(Fmt("Path '{}' is not a directory", <<path>>), tl)
    ELSE Failed(Fmt("Path '{}' does not exist", <<path>>), tl)

TreeTool_execute(kwargs, tl) ==
    IF ~Binds(kwargs, {}, {"depth", "path"})
    THEN ToolOutcome(Raised(BindError("TreeTool.execute")), tl)
    ELSE tree_of(IF "path" \in DOMAIN kwargs THEN kwargs["path"] ELSE ".", tl)

read_of(path, tl) ==
    IF path \in ProjectFiles THEN Succeeded(Data("dict", <<"path", path, "content">>), tl)
    ELSE IF path \in ProjectDirs THEN Failed(Fmt("'{}' is not a file", <<path>>), tl)
    ELSE Failed(Fmt("File '{}' does not exist", <<path>>), tl)

ReadFileTool_execute(kwargs, tl) ==
    IF ~Binds(kwargs, {"path"}, {})
    THEN ToolOutcome(Raised(BindError("ReadFileTool.execute")), tl)
    ELSE read_of(kwargs["path"], tl)

view_of(markdown, stats, tl) ==
    Succeeded(Data("dict", <<"markdown", markdown,
                             "total_items", ToString(stats.total_items),
                             "completed_items", ToString(stats.completed_items),
                             "pending_items", ToString(stats.pending_items)>>), tl)

TodoViewTool_execute(kwargs, tl) ==
    IF ~Binds(kwargs, {}, {})
    THEN ToolOutcome(Raised(BindError("TodoViewTool.execute")), tl)
    ELSE view_of(TodoList_to_markdown(tl), TodoList_get_stats(tl), tl)

\* lines 224-238: the confirmation of an edit
edit_confirmed(number, item, tl) ==
    Succeeded(Data("dict", <<"number", ToString(number), "updated", "True",
                             "item.text", item.text,
                             "item.completed", ToString(item.completed),
                             "new_markdown", TodoList_to_markdown(tl)>>), tl)

\* lines 217-238
edit_done(number, edited) ==
    IF ~edited.found
    THEN Failed(Fmt("Todo item #{} not found", <<ToString(number)>>), edited.list)
    ELSE edit_confirmed(number, edited.list.items[find_item(edited.list, number)], edited.list)

edit_of(number, completed, text, tl) ==
    IF IsNone(completed) /\ IsNone(text)
    THEN Failed(Lit("Must provide either 'completed' status or 'text' to edit"), tl)
    ELSE edit_done(number, TodoList_edit(tl, number, completed, text))

TodoEditTool_execute(kwargs, tl) ==
    IF ~Binds(kwargs, {"number"}, {"completed", "text"})
    THEN ToolOutcome(Raised(BindError("TodoEditTool.execute")), tl)
    ELSE edit_of(kwargs["number"], Kw(kwargs, "completed"), Kw(kwargs, "text"), tl)

\* lines 287-296
add_confirmed(number, text, added) ==
    Succeeded(Data("dict", <<"number", ToString(number), "text", text, "added", "True",
                             "new_markdown", TodoList_to_markdown(added)>>), added)

\* add_of that uses a number up for a text it rejects
add_of_consuming(text, tl) ==
    IF strip(text) = "" THEN Failed(Lit("Todo text cannot be empty"), [tl EXCEPT !.next_number = @ + 1])
    ELSE add_confirmed(tl.next_number, strip(text), TodoList_add(tl, strip(text)))

add_of(text, tl) ==
    IF strip(text) = "" THEN Failed(Lit("Todo text cannot be empty"), tl)
    ELSE add_confirmed(tl.next_number, strip(text), TodoList_add(tl, strip(text)))

TodoAddTool_execute(kwargs, tl) ==
    IF ~Binds(kwargs, {"text"}, {})
    THEN ToolOutcome(Raised(BindError("TodoAddTool.execute")), tl)
    ELSE add_of(kwargs["text"], tl)

\* tool.execute(kwargs), by the class of the tool object
Tool_execute(tool, kwargs, tl) ==
    CASE tool.impl = "TreeTool" -> TreeTool_execute(kwargs, tl)
      [] tool.impl = "ReadFileTool" -> ReadFileTool_execute(kwargs, tl)
      [] tool.impl = "TodoViewTool" -> TodoViewTool_execute(kwargs, tl)
      [] tool.impl = "TodoEditTool" -> TodoEditTool_execute(kwargs, tl)
      [] tool.impl = "TodoAddTool" -> TodoAddTool_execute(kwargs, tl)

----------------------------------------------------------------------------
(* tools/base.py : ToolRegistry *)

Tool(name, impl) == [name |-> name, impl |-> impl]

\* index of the tool registered under `name`, 0 if there is none
tool_index(reg, name) ==
    IF \A i \in 1..Len(reg) : reg[i].name /= name THEN 0
    ELSE CHOOSE i \in 1..Len(reg) : reg[i].name = name

get_tool(reg, name) ==
    IF tool_index(reg, name) = 0 THEN None ELSE Some(reg[tool_index(reg, name)])

get_tool_names(reg) == [i \in 1..Len(reg) |-> reg[i].name]

\* what a call of register did: whether it raised, and the registry it leaves
Registration(raised, exc, reg) == [raised |-> raised, exc |-> exc, tools |-> reg]

\* register without the test for a name already taken: the dict entry is
\* assigned, which replaces the tool registered under the name
register_overwriting(reg, tool) ==
    IF tool_index(reg, tool.name) /= 0
    THEN Registration(FALSE, Lit(""), [reg EXCEPT ![tool_index(reg, tool.name)] = tool])
    ELSE Registration(FALSE, Lit(""), Append(reg, tool))

\* ToolRegistry.register(tool)
register(reg, tool) ==
    IF tool_index(reg, tool.name) /= 0
    THEN Registration(TRUE, Fmt("Tool '{}' is already registered", <<tool.name>>), reg)
    ELSE Registration(FALSE, Lit(""), Append(reg, tool))

\* the parameters of execute_tool itself, which a keyword argument must not repeat
OwnParameters == {"self", "name"}

\* execute_guarded whose `except` clause builds a result without the error text
execute_guarded_bare(name, ran) ==
    IF ran.out.raised
    THEN ToolOutcome(Returned(ToolResult(FALSE, None, None)), ran.todo)
    ELSE ran

\* lines 150-156: `try: return tool.execute(...)` and its `except Exception`
execute_guarded(name, ran) ==
    IF ran.out.raised
    THEN Failed(Fmt("Tool '{}' execution failed: " \o ran.out.exc.fmt, <<name>> \o ran.out.exc.args),
                ran.todo)
    ELSE ran

\* lines 143-156: the body of execute_tool
execute_tool_body(reg, name, kwargs, tl) ==
    IF IsNone(get_tool(reg, name))
    THEN Failed(Fmt("Tool '{}' not found. Available tools: {}", <<name>> \o get_tool_names(reg)), tl)
    ELSE execute_guarded(name, Tool_execute(Get(get_tool(reg, name)), kwargs, tl))

\* ToolRegistry.execute_tool(name, kwargs) as its caller meets it: the binding
\* of the call to `def execute_tool(self, name, kwargs)`, then the body
execute_tool(reg, name, kwargs, tl) ==
    IF DOMAIN kwargs \cap OwnParameters /= {}
    THEN ToolOutcome(Raised(Fmt("execute_tool() got multiple values for argument '{}'",
                                <<CHOOSE k \in DOMAIN kwargs \cap OwnParameters : TRUE>>)), tl)
    ELSE execute_tool_body(reg, name, kwargs, tl)

----------------------------------------------------------------------------
(* agent/state.py : Message, TodoState, AgentState *)

Message(role, content, tool_calls, tool_call_id) ==
    [role |-> role, content |-> content, tool_calls |-> tool_calls, tool_call_id |-> tool_call_id]

TodoState(tl) == [todo_list |-> tl]

AgentState(iteration_count) ==
    [messages |-> <<>>,
     files_explored |-> {},
     iteration_count |-> iteration_count,
     should_continue |-> TRUE,
     todo_state |-> None,
     metadata |-> EmptyDict]

\* add_message that starts the conversation over
add_message_restarting(s, message) == [s EXCEPT !.messages = <<message>>]

add_message(s, message) == [s EXCEPT !.messages = Append(@, message)]

add_user_message(s, content) == add_message(s, Message("user", content, None, None))

add_assistant_message(s, content, tool_calls) ==
    add_message(s, Message("assistant", content, tool_calls, None))

add_tool_message(s, content, tool_call_id) ==
    add_message(s, Message("tool", content, None, Some(tool_call_id)))

\* Optional[Message]: the last message with role "assistant"
get_last_assistant_message(s) ==
    LET hits == {i \in 1..Len(s.messages) : s.messages[i].role = "assistant"}
    IN  IF hits = {} THEN None
        ELSE Some(s.messages[CHOOSE i \in hits : \A j \in hits : j <= i])

add_explored_file(s, file_path) == [s EXCEPT !.files_explored = @ \cup {file_path}]

get_exploration_summary(s) ==
    LET file_count == Cardinality(s.files_explored)
    IN  IF file_count = 0 THEN Lit("No files explored")
        ELSE IF file_count = 1
        THEN Fmt("Explored 1 file: {}", <<CHOOSE f \in s.files_explored : TRUE>>)
        ELSE Fmt("Explored {} files and directories", <<ToString(file_count)>>)

\* initialize_todo_state that builds a TodoState() on every call
initialize_todo_state_afresh(s) == [s EXCEPT !.todo_state = Some(TodoState(NewTodoList))]

initialize_todo_state(s) ==
    IF IsNone(s.todo_state) THEN [s EXCEPT !.todo_state = Some(TodoState(NewTodoList))] ELSE s

increment_iteration(s) == [s EXCEPT !.iteration_count = @ + 1]

\* `if reason:` is false for None and for the empty string
stop_execution(s, reason) ==
    LET stopped == [s EXCEPT !.should_continue = FALSE]
    IN  IF IsNone(reason) \/ reason = Some("") THEN stopped
        ELSE [stopped EXCEPT !.metadata = ("stop_reason" :> Get(reason)) @@ @]

\* the TodoList the todo tools were constructed with (agentic_task hands them
\* state.todo_state.todo_list)
shared_todo_list(s) == IF IsNone(s.todo_state) THEN NewTodoList ELSE Get(s.todo_state).todo_list

store_todo_list(s, tl) ==
    IF IsNone(s.todo_state) THEN s ELSE [s EXCEPT !.todo_state = Some(TodoState(tl))]

----------------------------------------------------------------------------
(* agent/providers.py : AgentResponse, and the tool-call records in it *)

\* {"id": id, "type": "function", "function": {"name": name, "arguments": arguments}};
\* id = None stands for a record without the "id" key
ToolCall(id, name, arguments) == [id |-> id, name |-> name, arguments |-> arguments]

AgentResponse(message, tool_calls, should_continue) ==
    [message |-> message, tool_calls |-> tool_calls, should_continue |-> should_continue]

has_tool_calls(r) == Len(r.tool_calls) > 0

\* json.loads on the argument payloads the backend of the model sends:
\* ok = FALSE is json.JSONDecodeError, mapping = FALSE a JSON value that is no object
json_loads(arguments_str) ==
    CASE arguments_str = "{}" ->
            [ok |-> TRUE, mapping |-> TRUE, value |-> EmptyDict, err |-> ""]
      [] arguments_str = "{\"path\": \"a.py\"}" ->
            [ok |-> TRUE, mapping |-> TRUE, value |-> [path |-> "a.py"], err |-> ""]
      [] arguments_str = "{\"path\": \"missing.py\"}" ->
            [ok |-> TRUE, mapping |-> TRUE, value |-> [path |-> "missing.py"], err |-> ""]
      [] arguments_str = "{\"name\": \"x\"}" ->
            [ok |-> TRUE, mapping |-> TRUE, value |-> [name |-> "x"], err |-> ""]
      [] arguments_str = "{\"text\": \"a\"}" ->
            [ok |-> TRUE, mapping |-> TRUE, value |-> [text |-> "a"], err |-> ""]
      [] arguments_str = "{\"text\": \" b \"}" ->
            [ok |-> TRUE, mapping |-> TRUE, value |-> [text |-> " b "], err |-> ""]
      [] arguments_str = "{\"text\": \" \"}" ->
            [ok |-> TRUE, mapping |-> TRUE, value |-> [text |-> " "], err |-> ""]
      [] arguments_str = "{\"number\": 1, \"completed\": true}" ->
            [ok |-> TRUE, mapping |-> TRUE, value |-> [number |-> 1, completed |-> TRUE], err |-> ""]
      [] arguments_str = "{\"number\": 2, \"text\": \"a\"}" ->
            [ok |-> TRUE, mapping |-> TRUE, value |-> [number |-> 2, text |-> "a"], err |-> ""]
      [] arguments_str = "{\"number\": 1}" ->
            [ok |-> TRUE, mapping |-> TRUE, value |-> [number |-> 1], err |-> ""]
      [] arguments_str = "[1]" ->
            [ok |-> TRUE, mapping |-> FALSE, value |-> EmptyDict, err |-> ""]
      [] OTHER ->
            [ok |-> FALSE, mapping |-> FALSE, value |-> EmptyDict,
             err |-> "Expecting property name enclosed in double quotes"]

----------------------------------------------------------------------------
(* agent/engine.py : AgentResult, AgentEngine *)

AgentResult(ok, final_output, iterations_used, error) ==
    [success |-> ok, final_output |-> final_output,
     iterations_used |-> iterations_used, error |-> error]

format_tool_result(res, tool_name) ==
    IF res.success
    THEN IF Truthy(res.data)
         THEN IF Get(res.data).type = "dict"
              THEN Fmt("json.dumps(indent=2)", Get(res.data).items)
              ELSE Fmt("{}", Get(res.data).items)
         ELSE Fmt("{} executed successfully", <<tool_name>>)
    ELSE Prefixed("Error: ", IF IsNone(res.error) THEN Lit("None") ELSE Get(res.error))

\* lines 284-290: the optional todo fields, then output.update(metadata)
merge_output(s, output) ==
    s.metadata @@
    (IF IsNone(s.todo_state) THEN output
     ELSE [todo_list |-> TodoList_to_markdown(Get(s.todo_state).todo_list),
           todo_stats |-> TodoList_get_stats(Get(s.todo_state).todo_list)] @@ output)

\* lines 276-282
core_output(s, last_message) ==
    [agent_summary |-> IF IsNone(last_message) THEN Lit("No final message")
                       ELSE Get(last_message).content,
     iterations_used |-> s.iteration_count,
     conversation_length |-> Len(s.messages),
     exploration_summary |-> get_exploration_summary(s),
     files_explored |-> s.files_explored]

extract_final_output(s) == merge_output(s, core_output(s, get_last_assistant_message(s)))

\* what one call of the batch did: the state it leaves, the exception it lets
\* escape (if any), and its entry in the dispatch log
CallDone(s, raised, exc, tool_call, dispatched, outcome) ==
    [state |-> s, raised |-> raised, exc |-> exc,
     entry |-> [call |-> tool_call, dispatched |-> dispatched, outcome |-> outcome]]

NotDispatched == Returned(ToolResult(FALSE, None, None))

\* tool_call_except that lets the exception leave _execute_tool_calls
tool_call_except_escaping(s, tool_call, e, dispatched, outcome) ==
    CallDone(s, TRUE, e, tool_call, dispatched, outcome)

\* tool_call_except that never looks the id of the call up
tool_call_except_anonymous(s, tool_call, e, dispatched, outcome) ==
    CallDone(add_tool_message(s, Prefixed("Tool execution failed: ", e), "unknown"),
             FALSE, Lit(""), tool_call, dispatched, outcome)

\* lines 213-215: the `except Exception as e` clause of the loop body
tool_call_except(s, tool_call, e, dispatched, outcome) ==
    CallDone(add_tool_message(s, Prefixed("Tool execution failed: ", e),
                              IF IsNone(tool_call.id) THEN "unknown" ELSE Get(tool_call.id)),
             FALSE, Lit(""), tool_call, dispatched, outcome)

\* json_error without the inner `try`: the parse error reaches the outer handler
json_error_generic(s, tool_call, err) ==
    tool_call_except(s, tool_call, Lit(err), FALSE, NotDispatched)

\* json_error that leaves no message in the conversation
json_error_silent(s, tool_call, err) ==
    CallDone(s, FALSE, Lit(""), tool_call, FALSE, NotDispatched)

\* lines 184-189: the `except json.JSONDecodeError as e` clause
json_error(s, tool_call, err) ==
    CallDone(add_tool_message(s, Fmt("Invalid JSON arguments for {}: {}", <<tool_call.name, err>>),
                              Get(tool_call.id)),
             FALSE, Lit(""), tool_call, FALSE, NotDispatched)

\* track_exploration that does not look at the result of the read
track_exploration_any(s, function_name, arguments, res) ==
    IF function_name = "read_file" /\ "path" \in DOMAIN arguments
    THEN add_explored_file(s, arguments["path"])
    ELSE s

\* lines 197-201: exploration tracking for read_file
track_exploration(s, function_name, arguments, res) ==
    IF function_name = "read_file" /\ res.success /\ "path" \in DOMAIN arguments
    THEN add_explored_file(s, arguments["path"])
    ELSE s

\* lines 197-207: the tool has answered
tool_answered(s, tool_call, arguments, ran) ==
    CallDone(add_tool_message(
                 track_exploration(store_todo_list(s, ran.todo), tool_call.name, arguments,
                                   ran.out.value),
                 format_tool_result(ran.out.value, tool_call.name), Get(tool_call.id)),
             FALSE, Lit(""), tool_call, TRUE, ran.out)

\* line 195 and what follows it: execute_tool was called and ended as `ran`
tool_dispatched(s, tool_call, arguments, ran) ==
    IF ran.out.raised
    THEN tool_call_except(s, tool_call, ran.out.exc, TRUE, ran.out)
    ELSE tool_answered(s, tool_call, arguments, ran)

\* lines 182-207: json.loads has ended as `parsed`
arguments_parsed(s, reg, tool_call, parsed) ==
    IF ~parsed.ok
    THEN json_error(s, tool_call, parsed.err)
    ELSE IF ~parsed.mapping
    THEN tool_call_except(s, tool_call,
             Lit("execute_tool() argument after ** must be a mapping, not list"),
             FALSE, NotDispatched)
    ELSE tool_dispatched(s, tool_call, parsed.value,
                         execute_tool(reg, tool_call.name, parsed.value, shared_todo_list(s)))

\* lines 175-218: one pass of the body of `for tool_call in tool_calls`
execute_tool_call(s, reg, tool_call) ==
    IF IsNone(tool_call.id)
    THEN tool_call_except(s, tool_call, Lit("'id'"), FALSE, NotDispatched)
    ELSE arguments_parsed(s, reg, tool_call, json_loads(tool_call.arguments))

BatchDone(s, raised, exc, ret, log) ==
    [state |-> s, raised |-> raised, exc |-> exc, ret |-> ret, log |-> log]

Logged(entry, rest) == [rest EXCEPT !.log = <<entry>> \o @]

RECURSIVE execute_tool_calls(_, _, _)

\* the loop goes on after the call that ended as `one`, unless it let an
\* exception escape
next_tool_call(one, reg, remaining) ==
    IF one.raised THEN BatchDone(one.state, TRUE, one.exc, FALSE, <<one.entry>>)
    ELSE Logged(one.entry, execute_tool_calls(one.state, reg, remaining))

\* execute_tool_calls that works the batch off from its end
execute_tool_calls_backwards(s, reg, tool_calls) ==
    IF tool_calls = <<>> THEN BatchDone(s, FALSE, Lit(""), TRUE, <<>>)
    ELSE next_tool_call(execute_tool_call(s, reg, tool_calls[Len(tool_calls)]), reg,
                        SubSeq(tool_calls, 1, Len(tool_calls) - 1))

\* _execute_tool_calls: `ret` is its return value (line 220), `raised` tells
\* that an exception left it instead
execute_tool_calls(s, reg, tool_calls) ==
    IF tool_calls = <<>> THEN BatchDone(s, FALSE, Lit(""), TRUE, <<>>)
    ELSE next_tool_call(execute_tool_call(s, reg, Head(tool_calls)), reg, Tail(tool_calls))

\* where a segment of run() ends: at the next backend call, or at its return
Segment(s, at, res, ok, log) ==
    [state |-> s, pc |-> at, result |-> res, success |-> ok, log |-> log]

\* lines 138-150: leave the loop and return the successful AgentResult
run_return(s, ok, log) ==
    Segment(s, "returned",
            Some(AgentResult(TRUE, extract_final_output(s), s.iteration_count, None)), ok, log)

\* run_except that does not count the failing pass
run_except_uncounted(s, e, ok, log) ==
    Segment(s, "returned",
            Some(AgentResult(FALSE, EmptyDict, s.iteration_count - 1,
                             Some(Prefixed("Agent execution failed: ", e)))), ok, log)

\* run_except that lets the exception leave run()
run_except_reraised(s, e, ok, log) == Segment(s, "raised", None, ok, log)

\* lines 152-163: the top-level `except Exception as e`
run_except(s, e, ok, log) ==
    Segment(s, "returned",
            Some(AgentResult(FALSE, EmptyDict, s.iteration_count,
                             Some(Prefixed("Agent execution failed: ", e)))), ok, log)

\* loop_head with the bound of the `while` test off by one
loop_head_inclusive(s, max, ok, log) ==
    IF s.iteration_count <= max /\ s.should_continue
    THEN Segment(increment_iteration(s), "backend", None, ok, log)
    ELSE run_return(s, ok, log)

\* loop_head that does not look at the continuation flag
loop_head_unflagged(s, max, ok, log) ==
    IF s.iteration_count < max
    THEN Segment(increment_iteration(s), "backend", None, ok, log)
    ELSE run_return(s, ok, log)

\* lines 92-101: the `while` test, increment_iteration and the backend call
loop_head(s, max, ok, log) ==
    IF s.iteration_count < max /\ s.should_continue
    THEN Segment(increment_iteration(s), "backend", None, ok, log)
    ELSE run_return(s, ok, log)

\* safety_check that lets the pass which reaches the budget go by
safety_check_late(s, max, ok, log) ==
    IF s.iteration_count > max
    THEN run_return(stop_execution(s, Some("max_iterations_reached")), ok, log)
    ELSE loop_head(s, max, ok, log)

\* safety_check that stops without giving a reason
safety_check_unreasoned(s, max, ok, log) ==
    IF s.iteration_count >= max
    THEN run_return(stop_execution(s, None), ok, log)
    ELSE loop_head(s, max, ok, log)

\* lines 131-136: the safety check that ends a pass
safety_check(s, max, ok, log) ==
    IF s.iteration_count >= max
    THEN run_return(stop_execution(s, Some("max_iterations_reached")), ok, log)
    ELSE loop_head(s, max, ok, log)

\* lines 120-124: _execute_tool_calls has ended as `batch`
tool_calls_executed(batch, max, ok) ==
    IF batch.raised THEN run_except(batch.state, batch.exc, ok, batch.log)
    ELSE IF ~batch.ret THEN run_return(batch.state, batch.ret, batch.log)
    ELSE safety_check(batch.state, max, batch.ret, batch.log)

\* no_tool_calls that does not look at the backend's hint
no_tool_calls_ignoring(s, r) == s

\* no_tool_calls that takes any answer without tool calls as the last one
no_tool_calls_final(s, r) == [s EXCEPT !.should_continue = FALSE]

\* lines 126-127: a response without tool calls
no_tool_calls(s, r) == [s EXCEPT !.should_continue = r.should_continue]

\* response_handled that adopts the backend's hint after the tool calls too
response_handled_hint(s, reg, max, r, ok) ==
    IF has_tool_calls(r)
    THEN tool_calls_executed(
             [execute_tool_calls(s, reg, r.tool_calls) EXCEPT !.state.should_continue = r.should_continue],
             max, ok)
    ELSE safety_check(no_tool_calls(s, r), max, ok, <<>>)

\* lines 118-136: the branch on has_tool_calls, `s` already holding the
\* assistant message
response_handled(s, reg, max, r, ok) ==
    IF has_tool_calls(r)
    THEN tool_calls_executed(execute_tool_calls(s, reg, r.tool_calls), max, ok)
    ELSE safety_check(no_tool_calls(s, r), max, ok, <<>>)

\* loop_pass that records the assistant message only when it requests tools
loop_pass_conditional(s, reg, max, r, ok) ==
    IF has_tool_calls(r)
    THEN response_handled(add_assistant_message(s, r.message, Some(r.tool_calls)), reg, max, r, ok)
    ELSE response_handled(s, reg, max, r, ok)

\* lines 112-136 and what follows them: the rest of the pass once the backend
\* has answered `r`
loop_pass(s, reg, max, r, ok) ==
    response_handled(add_assistant_message(s, r.message,
                         IF r.tool_calls /= <<>> THEN Some(r.tool_calls) ELSE None),
                     reg, max, r, ok)

----------------------------------------------------------------------------
(* What the environment supplies: the engine's construction, the prompt,    *)
(* and the answers of the model backend.                                    *)

\* usecases/agentic_task.py : _setup_agent_components
AgenticRegistry ==
    <<Tool("tree", "TreeTool"), Tool("read_file", "ReadFileTool"),
      Tool("todo_view", "TodoViewTool"), Tool("todo_edit", "TodoEditTool"),
      Tool("todo_add", "TodoAddTool")>>

Prompt == Lit("prompt")

ResponseTexts == {"reply"}

BackendErrors == {"Provider error"}

\* the tool calls a backend response may carry: tool name, arguments payload,
\* and whether the record has an "id"
CallNames == {"read_file", "nonexistent"}
CallArguments ==
    {"{}", "{\"path\": \"a.py\"}", "{\"path\": \"missing.py\"}", "{\"name\": \"x\"}",
     "[1]", "{invalid json"}
\* a record without an id is handled before its name and arguments are looked at
UnidentifiedArguments == {"{}", "{invalid json"}
CallShapes ==
    (CallNames \X CallArguments \X {TRUE}) \cup ({"read_file"} \X UnidentifiedArguments \X {FALSE})

\* the batches of n calls; the backend numbers its call ids
Batches(n, issued) ==
    {[i \in 1..n |-> ToolCall(IF shapes[i][3] THEN Some("call_" \o ToString(issued + i)) ELSE None,
                              shapes[i][1], shapes[i][2])] : shapes \in [1..n -> CallShapes]}

NoResponse == AgentResponse(Lit(""), <<>>, TRUE)

----------------------------------------------------------------------------
(* The state machine *)

Init ==
    /\ \E c \in 0..MaxInitCount : state = initialize_todo_state(AgentState(c))
    /\ tools = AgenticRegistry
    /\ max_iterations \in 0..MaxIter
    /\ pc = "idle"
    /\ response = NoResponse
    /\ success = TRUE
    /\ result = None
    /\ dispatch_log = <<>>
    /\ hist = [runs |-> 0, passes |-> 0, backend_calls |-> 0, tool_calls |-> 0,
               entry_count |-> 0, at_call |-> <<>>, results |-> 0,
               backend_raised |-> FALSE, idle_only |-> TRUE]

\* the bookkeeping after a segment of run() that ended as `seg`
Recorded(h, seg) ==
    [h EXCEPT !.backend_calls = IF seg.pc = "backend" THEN @ + 1 ELSE @,
              !.at_call = IF seg.pc = "backend" THEN seg.state.messages ELSE @,
              !.results = IF seg.pc = "returned" THEN @ + 1 ELSE @]

\* the variables a segment of run() writes
Lands(seg, h) ==
    /\ state' = seg.state
    /\ pc' = seg.pc
    /\ result' = seg.result
    /\ success' = seg.success
    /\ dispatch_log' = seg.log
    /\ hist' = Recorded(h, seg)

\* run(initial_prompt) is called: lines 76-101, or through to the return
RunCall ==
    /\ pc \in {"idle", "returned"}
    /\ hist.runs < MaxRuns
    /\ Lands(loop_head(add_user_message(state, Prompt), max_iterations, success, dispatch_log),
             [hist EXCEPT !.runs = @ + 1, !.passes = 0, !.backend_calls = 0,
                          !.entry_count = state.iteration_count, !.results = 0,
                          !.backend_raised = FALSE, !.idle_only = TRUE])
    /\ UNCHANGED <<tools, max_iterations, response>>

\* generate_with_tools returns an AgentResponse: the rest of the pass
BackendReturns ==
    /\ pc = "backend"
    /\ \E message \in ResponseTexts, should_continue \in BOOLEAN, n \in 0..MaxBatch :
          /\ hist.tool_calls + n <= MaxToolCalls
          /\ \E tool_calls \in Batches(n, hist.tool_calls) :
                /\ response' = AgentResponse(Lit(message), tool_calls, should_continue)
                /\ Lands(loop_pass(state, tools, max_iterations, response', success),
                         [hist EXCEPT !.passes = @ + 1, !.tool_calls = @ + n,
                                      !.idle_only = @ /\ n = 0 /\ should_continue])
    /\ UNCHANGED <<tools, max_iterations>>

\* generate_with_tools raises: the top-level handler
BackendRaises ==
    /\ pc = "backend"
    /\ \E e \in BackendErrors :
          Lands(run_except(state, Lit(e), success, dispatch_log),
                [hist EXCEPT !.passes = @ + 1, !.backend_raised = TRUE, !.idle_only = FALSE])
    /\ UNCHANGED <<tools, max_iterations, response>>

Next == RunCall \/ BackendReturns \/ BackendRaises

Spec == Init /\ [][Next]_vars

\* the backend call is synchronous: it ends, by returning or by raising
BackendAnswers == BackendReturns \/ BackendRaises

FairSpec == Spec /\ WF_vars(BackendAnswers)

----------------------------------------------------------------------------
(* Properties *)

Returned_ == pc = "returned" /\ ~IsNone(result)
TheResult == Get(result)
StopReason == IF "stop_reason" \in DOMAIN state.metadata THEN state.metadata["stop_reason"] ELSE ""
Max(a, b) == IF a >= b THEN a ELSE b

\* a step in which the backend answered with at least one tool call
ToolPass == hist'.tool_calls > hist.tool_calls

\* C1 as stated: whenever run() has returned, iterations_used equals
\* state.iteration_count and is at most max_iterations, for any state handed
\* to the engine.
C1_AsStated ==
    Returned_ =>
        /\ TheResult.iterations_used = state.iteration_count
        /\ TheResult.iterations_used <= max_iterations

\* C1 amended: whenever run() has returned, iterations_used equals
\* state.iteration_count, and it exceeds max_iterations only as far as the
\* counter already did when run() was entered.
C1_IterationsUsed ==
    Returned_ =>
        /\ TheResult.iterations_used = state.iteration_count
        /\ TheResult.iterations_used <= Max(max_iterations, hist.entry_count)

C1_Witness ==
    /\ Returned_
    /\ hist.passes = 2
    /\ hist.entry_count = 0
    /\ TheResult.iterations_used = max_iterations

\* C2 as stated: a pass whose response carries tool calls is always followed
\* by a further backend call.
C2_AsStated == [][ToolPass => pc' = "backend"]_vars

\* C2 amended: a pass whose response carries tool calls and which has not
\* brought the counter to max_iterations is followed by a further backend
\* call, whatever the response's should_continue hint is; the continuation flag
\* stays as it was and nothing is returned.
C2_ToolCallsForceContinuation ==
    [][(ToolPass /\ state.iteration_count < max_iterations) =>
            /\ pc' = "backend"
            /\ state'.should_continue = state.should_continue
            /\ state'.should_continue
            /\ IsNone(result')
            /\ hist'.backend_calls = hist.backend_calls + 1]_vars

C2_Witness ==
    /\ pc = "backend"
    /\ has_tool_calls(response)
    /\ ~response.should_continue
    /\ hist.backend_calls = 2

\* C3 as stated, read for the calls of run() that made at least one loop
\* pass: whenever run() has returned with the counter at max_iterations, the
\* stop reason is max_iterations_reached, should_continue is false and the
\* result has success = true.
C3_AsStated ==
    (Returned_ /\ hist.passes > 0 /\ state.iteration_count >= max_iterations) =>
        /\ StopReason = "max_iterations_reached"
        /\ ~state.should_continue
        /\ TheResult.success

\* C3 amended: whenever run() has returned after at least one loop pass, with
\* no backend call of it having raised and the counter at max_iterations, the
\* stop reason is max_iterations_reached, should_continue is false and the
\* result has success = true, whatever the last response was.
C3_HardStop ==
    (Returned_ /\ hist.passes > 0 /\ ~hist.backend_raised
               /\ state.iteration_count >= max_iterations) =>
        /\ StopReason = "max_iterations_reached"
        /\ ~state.should_continue
        /\ TheResult.success
        /\ TheResult.final_output["stop_reason"] = "max_iterations_reached"

C3_Witness ==
    /\ Returned_
    /\ hist.passes > 0
    /\ has_tool_calls(response)
    /\ response.should_continue
    /\ state.iteration_count = max_iterations
    /\ StopReason = "max_iterations_reached"

\* the first run() call on an engine built with a fresh AgentState
FreshRun == hist.runs = 1 /\ hist.entry_count = 0

\* C4 as stated: with a backend that never raises and always answers without
\* tool calls and with should_continue = TRUE, run() on a fresh state returns
\* after exactly max_iterations passes and backend calls, with
\* iterations_used = max_iterations and stop reason max_iterations_reached.
C4_AsStated ==
    (Returned_ /\ FreshRun /\ hist.idle_only) =>
        /\ hist.passes = max_iterations
        /\ hist.backend_calls = max_iterations
        /\ TheResult.iterations_used = max_iterations
        /\ StopReason = "max_iterations_reached"

\* C4 amended: the same for max_iterations >= 1 (with max_iterations = 0 no
\* pass runs and no stop reason is recorded); and while such a run is waiting
\* for the backend, fewer than max_iterations passes are complete.
C4_ExactBudget ==
    /\ (Returned_ /\ FreshRun /\ hist.idle_only /\ max_iterations >= 1) =>
            /\ hist.passes = max_iterations
            /\ hist.backend_calls = max_iterations
            /\ TheResult.success
            /\ TheResult.iterations_used = max_iterations
            /\ StopReason = "max_iterations_reached"
    /\ (Returned_ /\ FreshRun /\ hist.idle_only /\ max_iterations = 0) =>
            /\ hist.passes = 0
            /\ StopReason = ""
    /\ (pc = "backend" /\ FreshRun /\ hist.idle_only) =>
            /\ hist.passes < max_iterations
            /\ hist.backend_calls = hist.passes + 1

C4_Witness ==
    /\ Returned_
    /\ FreshRun
    /\ hist.idle_only
    /\ max_iterations = 2
    /\ hist.passes = 2

\* C5: when the backend raises during a pass, run() returns success = FALSE
\* with the exception message in error, an empty final_output, iterations_used
\* equal to the counter (the passes made before this call plus those of this
\* call, the failing one included), and the conversation exactly as it was
\* handed to the failing backend call.
C5_BackendFault ==
    (Returned_ /\ hist.backend_raised) =>
        /\ ~TheResult.success
        /\ ~IsNone(TheResult.error)
        /\ \E e \in BackendErrors :
              Get(TheResult.error) = Fmt("Agent execution failed: " \o e, <<>>)
        /\ DOMAIN TheResult.final_output = {}
        /\ TheResult.iterations_used = state.iteration_count
        /\ state.iteration_count = hist.entry_count + hist.passes
        /\ state.messages = hist.at_call

C5_Witness ==
    /\ Returned_
    /\ hist.backend_raised
    /\ hist.passes = 2
    /\ hist.entry_count = 0
    /\ TheResult.iterations_used = 2
    /\ \E i \in 1..Len(state.messages) : state.messages[i].role = "tool"

\* the AgentResult is one of the two shapes run() builds
WellFormed(r) ==
    IF r.success
    THEN /\ IsNone(r.error)
         /\ {"agent_summary", "iterations_used", "conversation_length",
             "exploration_summary", "files_explored"} \subseteq DOMAIN r.final_output
    ELSE /\ ~IsNone(r.error)
         /\ DOMAIN r.final_output = {}

C6_OneResult ==
    /\ pc \in {"idle", "backend", "returned"}
    /\ pc = "returned" =>
            /\ ~IsNone(result)
            /\ hist.results = 1
            /\ WellFormed(TheResult)
            /\ TheResult.iterations_used = state.iteration_count
    /\ pc = "backend" => (IsNone(result) /\ hist.results = 0)

\* C6: run() never raises; whatever the backend and the tools do, every call
\* of run() ends, and ends by returning exactly one well-formed AgentResult
\* with the counter in iterations_used.
C6_RunAlwaysReturns == [](C6_OneResult) /\ [](pc = "backend" => <>(pc = "returned"))

C6_Witness ==
    /\ pc = "returned"
    /\ hist.passes = 2
    /\ hist.backend_raised
    /\ ~TheResult.success
    /\ \E i \in 1..Len(dispatch_log) : dispatch_log[i].outcome.raised

Unparsable(tool_call) == ~json_loads(tool_call.arguments).ok

\* the message the i-th call of the pass just made has left in the conversation
Answer(i) == state'.messages[Len(state.messages) + 1 + i]

\* what a pass does with a call that has an id and an unparsable payload: one
\* tool message per call of the batch, this call's one reporting the parse
\* error, naming the tool and carrying the call's id, and no dispatch
ParseErrorsReported ==
    \A i \in 1..Len(response'.tool_calls) :
        (Unparsable(response'.tool_calls[i]) /\ ~IsNone(response'.tool_calls[i].id)) =>
            /\ Len(state'.messages) = Len(state.messages) + 1 + Len(response'.tool_calls)
            /\ Len(dispatch_log') = Len(response'.tool_calls)
            /\ Answer(i).role = "tool"
            /\ Answer(i).content.fmt = "Invalid JSON arguments for {}: {}"
            /\ Answer(i).content.args[1] = response'.tool_calls[i].name
            /\ Answer(i).tool_call_id = response'.tool_calls[i].id
            /\ ~dispatch_log'[i].dispatched
            /\ \A j \in 1..Len(response'.tool_calls) : Answer(j).role = "tool"

SomeParseError ==
    \E i \in 1..Len(response'.tool_calls) :
        Unparsable(response'.tool_calls[i]) /\ ~IsNone(response'.tool_calls[i].id)

\* C8 as stated: a call with unparsable arguments gets exactly one tool message
\* that reports the parse error, names the tool and carries the call's id, is
\* not dispatched, the other calls of the batch are still processed, and the
\* run goes on to the next backend call.
C8_AsStated ==
    [][ToolPass => (ParseErrorsReported /\ (SomeParseError => pc' = "backend"))]_vars

\* C8 amended: the same, except that the run goes on to the next backend call
\* only if the pass has not brought the counter to max_iterations; if it has,
\* run() returns with success = TRUE and stop reason max_iterations_reached.
C8_ParseErrorIsolated ==
    [][ToolPass =>
            /\ ParseErrorsReported
            /\ (SomeParseError /\ state.iteration_count < max_iterations) => pc' = "backend"
            /\ (SomeParseError /\ state.iteration_count >= max_iterations) =>
                    /\ pc' = "returned"
                    /\ Get(result').success
                    /\ state'.metadata["stop_reason"] = "max_iterations_reached"]_vars

C8_Witness ==
    /\ pc = "backend"
    /\ hist.backend_calls = 2
    /\ Len(dispatch_log) = 2
    /\ Unparsable(dispatch_log[1].call)
    /\ ~IsNone(dispatch_log[1].call.id)
    /\ dispatch_log[2].dispatched
    /\ state.messages[Len(state.messages) - 1].content.fmt = "Invalid JSON arguments for {}: {}"

\* C9 as stated: execute_tool never raises, whatever the name and the keyword
\* arguments it is called with; every call of it returns a ToolResult.
C9_AsStated ==
    \A i \in 1..Len(dispatch_log) :
        dispatch_log[i].dispatched => ~dispatch_log[i].outcome.raised

\* the error execute_tool builds for a name that is not registered
NotFound(name) == Fmt("Tool '{}' not found. Available tools: {}", <<name>> \o get_tool_names(tools))

\* C10 as stated: execute_tool with a name that is not registered returns a
\* ToolResult with success = FALSE whose error says the tool was not found and
\* lists every registered name; in a run the error is surfaced as a tool
\* message and the run goes on (to the next backend call as long as the
\* iteration budget lasts, see C2) and returns with success = TRUE.
C10_AsStated ==
    [][ToolPass =>
          \A i \in 1..Len(dispatch_log') :
              (dispatch_log'[i].dispatched /\ IsNone(get_tool(tools, dispatch_log'[i].call.name))) =>
                  /\ ~dispatch_log'[i].outcome.raised
                  /\ ~dispatch_log'[i].outcome.value.success
                  /\ dispatch_log'[i].outcome.value.error = Some(NotFound(dispatch_log'[i].call.name))
                  /\ Answer(i).role = "tool"
                  /\ Answer(i).content = Prefixed("Error: ", NotFound(dispatch_log'[i].call.name))
                  /\ state.iteration_count < max_iterations => pc' = "backend"
                  /\ pc' = "returned" => Get(result').success]_vars

----------------------------------------------------------------------------
(* The tool registry on its own: a ToolRegistry() and the register calls    *)
(* made on it.  `tools` is the registry, `hist` the bookkeeping of the      *)
(* calls: the last call (tool, raised, exc) and, per name, the first tool   *)
(* a register call was made with.  The engine's variables stay as built.    *)

\* the tool objects handed to register: a name and the class of the object
RegistryNames == {"mock_tool", "tree", "read_file"}
RegistryClasses == {"MockTool", "OtherTool"}
Candidates == {Tool(n, c) : n \in RegistryNames, c \in RegistryClasses}

RegistryInit ==
    /\ tools = <<>>
    /\ state = AgentState(0)
    /\ max_iterations = 0
    /\ pc = "idle"
    /\ response = NoResponse
    /\ success = TRUE
    /\ result = None
    /\ dispatch_log = <<>>
    /\ hist = [op |-> "ToolRegistry", tool |-> Tool("", ""), raised |-> FALSE, exc |-> Lit(""),
               first |-> EmptyDict]

RegisterLands(out, tool) ==
    /\ tools' = out.tools
    /\ hist' = [op |-> "register", tool |-> tool, raised |-> out.raised, exc |-> out.exc,
                first |-> IF tool.name \in DOMAIN hist.first THEN hist.first
                          ELSE (tool.name :> tool) @@ hist.first]

\* registry.register(tool)
Register ==
    /\ \E tool \in Candidates : RegisterLands(register(tools, tool), tool)
    /\ UNCHANGED <<state, max_iterations, pc, response, success, result, dispatch_log>>

RegistryNext == Register

RegistrySpec == RegistryInit /\ [][RegistryNext]_vars

\* a register call raises exactly when the name is taken, and then changes
\* nothing; otherwise the tool is added after the ones already there
RegisterStep ==
    /\ hist'.raised <=> (tool_index(tools, hist'.tool.name) /= 0)
    /\ hist'.raised =>
            /\ tools' = tools
            /\ hist'.exc = Fmt("Tool '{}' is already registered", <<hist'.tool.name>>)
    /\ ~hist'.raised => tools' = Append(tools, hist'.tool)

\* every name maps to one tool, the first one register was called with
FirstRegisteredKept ==
    /\ \A i, j \in 1..Len(tools) : tools[i].name = tools[j].name => i = j
    /\ \A n \in DOMAIN hist.first : get_tool(tools, n) = Some(hist.first[n])
    /\ {tools[i].name : i \in 1..Len(tools)} = DOMAIN hist.first

\* C11: register of a tool whose name is already registered raises a
\* registration error and leaves the registry unchanged (same length, the name
\* still maps to the first-registered tool, the second tool is not added);
\* after any sequence of register calls each name maps to at most one tool,
\* the first one registered under it.
C11_DuplicateRejected == [][RegisterStep]_vars /\ [](FirstRegisteredKept)

C11_Witness ==
    /\ hist.op = "register"
    /\ hist.raised
    /\ Len(tools) = 2
    /\ hist.tool.name = tools[1].name
    /\ hist.tool /= tools[1]
    /\ get_tool(tools, hist.tool.name) = Some(tools[1])

----------------------------------------------------------------------------
(* The session state and its todo list on their own: a fresh AgentState()   *)
(* and the calls made on it and on the TodoList of its todo sub-state.      *)
(* `state` is the AgentState, `hist` the bookkeeping of the calls: the last *)
(* call with its arguments and return value, the TodoState objects created, *)
(* and the numbers add has returned since the list was created or cleared.  *)

MaxTodos == 2       \* items in the todo list

TodoTexts == {"a", "b"}
EditStatuses == {None, Some(TRUE), Some(FALSE)}
EditTexts == {None} \cup {Some(t) : t \in TodoTexts}

TodoInit ==
    /\ state = AgentState(0)
    /\ tools = AgenticRegistry
    /\ max_iterations = 0
    /\ pc = "idle"
    /\ response = NoResponse
    /\ success = TRUE
    /\ result = None
    /\ dispatch_log = <<>>
    /\ hist = [op |-> "AgentState", number |-> 0, status |-> None, text |-> None,
               ret_number |-> 0, ret_found |-> FALSE, ret_state |-> None, ret_markdown |-> "",
               created |-> 0, assigned |-> <<>>]

\* the bookkeeping once a call is made: the call, and no return value yet
Called(h, op, number, status, text) ==
    [op |-> op, number |-> number, status |-> status, text |-> text,
     ret_number |-> 0, ret_found |-> FALSE, ret_state |-> None, ret_markdown |-> "",
     created |-> h.created, assigned |-> h.assigned]

\* state.initialize_todo_state()
InitializeTodoState ==
    /\ state' = initialize_todo_state(state)
    /\ hist' = [Called(hist, "initialize_todo_state", 0, None, None) EXCEPT
                    !.ret_state = initialize_todo_state(state).todo_state,
                    !.created = IF IsNone(state.todo_state) THEN @ + 1 ELSE @]
    /\ UNCHANGED <<tools, max_iterations, pc, response, success, result, dispatch_log>>

\* the number add returns: that of the item it has appended
added_number(tl) == tl.items[Len(tl.items)].number

AddLands(added, text) ==
    /\ state' = store_todo_list(state, added)
    /\ hist' = [Called(hist, "add", 0, None, Some(text)) EXCEPT
                    !.ret_number = added_number(added),
                    !.assigned = Append(@, added_number(added))]

\* todo_list.add(text)
TodoAdd ==
    /\ ~IsNone(state.todo_state)
    /\ Len(shared_todo_list(state).items) < MaxTodos
    /\ \E text \in TodoTexts : AddLands(TodoList_add(shared_todo_list(state), text), text)
    /\ UNCHANGED <<tools, max_iterations, pc, response, success, result, dispatch_log>>

EditLands(edited, number, status, text) ==
    /\ state' = store_todo_list(state, edited.list)
    /\ hist' = [Called(hist, "edit", number, status, text) EXCEPT !.ret_found = edited.found]

\* todo_list.edit(number, status, text)
TodoEdit ==
    /\ ~IsNone(state.todo_state)
    /\ \E number \in 1..(MaxTodos + 1), status \in EditStatuses, text \in EditTexts :
          EditLands(TodoList_edit(shared_todo_list(state), number, status, text),
                    number, status, text)
    /\ UNCHANGED <<tools, max_iterations, pc, response, success, result, dispatch_log>>

\* todo_list.clear()
TodoClear ==
    /\ ~IsNone(state.todo_state)
    /\ state' = store_todo_list(state, TodoList_clear(shared_todo_list(state)))
    /\ hist' = [Called(hist, "clear", 0, None, None) EXCEPT !.assigned = <<>>]
    /\ UNCHANGED <<tools, max_iterations, pc, response, success, result, dispatch_log>>

\* todo_list.to_markdown()
TodoToMarkdown ==
    /\ ~IsNone(state.todo_state)
    /\ hist' = [Called(hist, "to_markdown", 0, None, None) EXCEPT
                    !.ret_markdown = TodoList_to_markdown(shared_todo_list(state))]
    /\ UNCHANGED <<state, tools, max_iterations, pc, response, success, result, dispatch_log>>

TodoNext == InitializeTodoState \/ TodoAdd \/ TodoEdit \/ TodoClear \/ TodoToMarkdown

TodoSpec == TodoInit /\ [][TodoNext]_vars

\* the todo list of the state, once the todo sub-state exists
TheList == shared_todo_list(state)
TheList_ == shared_todo_list(state')
Numbers(tl) == [i \in 1..Len(tl.items) |-> tl.items[i].number]

\* the numbers handed out since the list was created or last cleared are
\* 1, 2, 3, ... and are the numbers of the items, in the order of the list
NumberedInOrder ==
    /\ \A i \in 1..Len(hist.assigned) : hist.assigned[i] = i
    /\ Numbers(TheList) = hist.assigned
    /\ TheList.next_number = Len(hist.assigned) + 1

\* add returns a number larger than every number handed out before it, 1 for
\* the first one; edit hands out nothing; the counter falls back to 1 through
\* clear only
NumberingStep ==
    /\ hist'.op = "add" =>
            /\ \A i \in 1..Len(hist.assigned) : hist.assigned[i] < hist'.ret_number
            /\ hist'.ret_number = Len(hist.assigned) + 1
            /\ TheList_.items[Len(TheList_.items)].number = hist'.ret_number
            /\ TheList_.next_number = TheList.next_number + 1
    /\ hist'.op = "edit" =>
            /\ TheList_.next_number = TheList.next_number
            /\ hist'.assigned = hist.assigned
    /\ (TheList_.next_number < TheList.next_number) =>
            (hist'.op = "clear" /\ TheList_.next_number = 1 /\ TheList_.items = <<>>)

\* C12: add assigns item numbers in strictly increasing order starting at 1
\* and never reuses one over any sequence of add and edit calls; numbering
\* restarts at 1 only through clear().
C12_NumbersNeverReused == [][NumberingStep]_vars /\ [](NumberedInOrder)

C12_Witness ==
    /\ hist.op = "add"
    /\ hist.ret_number = 2
    /\ hist.assigned = <<1, 2>>
    /\ TheList.items[1].completed

\* item numbers are pairwise distinct
NumbersDistinct ==
    \A i, j \in 1..Len(TheList.items) :
        TheList.items[i].number = TheList.items[j].number => i = j

\* the position in the list of the item with the given number, 0 if none has it
PositionOf(tl, number) ==
    IF \E i \in 1..Len(tl.items) : tl.items[i].number = number
    THEN CHOOSE i \in 1..Len(tl.items) : tl.items[i].number = number
    ELSE 0

\* what edit(number, status, text) leaves of the item it was called for
Edited(item, status, text) ==
    /\ item.completed = IF IsNone(status) THEN TheList.items[PositionOf(TheList, item.number)].completed
                        ELSE Get(status)
    /\ item.text = IF IsNone(text) THEN TheList.items[PositionOf(TheList, item.number)].text
                   ELSE Get(text)

\* no call but clear takes an item away, moves it or gives it another number;
\* edit changes nothing but the flag and the text of the item with its number
StableStep ==
    /\ hist'.op /= "clear" =>
            /\ Len(TheList_.items) >= Len(TheList.items)
            /\ \A i \in 1..Len(TheList.items) : TheList_.items[i].number = TheList.items[i].number
    /\ hist'.op = "edit" =>
            /\ Len(TheList_.items) = Len(TheList.items)
            /\ hist'.ret_found <=> (PositionOf(TheList, hist'.number) /= 0)
            /\ \A i \in 1..Len(TheList.items) :
                  IF TheList.items[i].number = hist'.number
                  THEN Edited(TheList_.items[i], hist'.status, hist'.text)
                  ELSE TheList_.items[i] = TheList.items[i]
    /\ hist'.op \in {"add", "to_markdown", "initialize_todo_state"} =>
            \A i \in 1..Len(TheList.items) : TheList_.items[i] = TheList.items[i]

\* C13: in every reachable state the item numbers are pairwise distinct, and
\* an item's number and position never change once assigned: edit mutates only
\* the completed flag and/or the text of the one item with the given number,
\* in place, and never renumbers or reorders.
C13_NumbersStable == [][StableStep]_vars /\ [](NumbersDistinct)

C13_Witness ==
    /\ hist.op = "edit"
    /\ hist.ret_found
    /\ hist.number = 1
    /\ hist.status = Some(TRUE)
    /\ hist.text = Some("b")
    /\ Len(TheList.items) = 2
    /\ TheList.items[1] = TodoItem(1, "b", TRUE)
    /\ TheList.items[2].number = 2

\* the line of one item: '- [ ] N. text' if pending, '- [x] N. text' if completed
Line(item) ==
    IF item.completed THEN "- [x] " \o ToString(item.number) \o ". " \o item.text
    ELSE "- [ ] " \o ToString(item.number) \o ". " \o item.text

RECURSIVE Rendered(_, _)
\* the lines of the first n items, in list order, a newline between two lines
Rendered(items, n) ==
    IF n = 1 THEN Line(items[1])
    ELSE Rendered(items, n - 1) \o "\n" \o Line(items[n])

\* C14: to_markdown renders a non-empty list as one line per item in
\* insertion order, joined by single newlines with no trailing newline, each
\* line '- [ ] N. text' or '- [x] N. text'; items (1, a, pending),
\* (2, b, completed) give '- [ ] 1. a' newline '- [x] 2. b'; an empty list
\* renders as 'No todos yet.'.
C14_Markdown ==
    hist.op = "to_markdown" =>
        /\ TheList.items = <<>> => hist.ret_markdown = "No todos yet."
        /\ TheList.items /= <<>> => hist.ret_markdown = Rendered(TheList.items, Len(TheList.items))
        /\ TheList.items = <<TodoItem(1, "a", FALSE), TodoItem(2, "b", TRUE)>> =>
                hist.ret_markdown = "- [ ] 1. a\n- [x] 2. b"

C14_Witness ==
    /\ hist.op = "to_markdown"
    /\ TheList.items = <<TodoItem(1, "a", FALSE), TodoItem(2, "b", TRUE)>>
    /\ hist.ret_markdown = "- [ ] 1. a\n- [x] 2. b"

\* the first call builds the sub-state with an empty list and returns it; a
\* later call returns the one that is there and changes nothing; no other call
\* builds, replaces or drops the sub-state
InitializeStep ==
    /\ hist'.op = "initialize_todo_state" =>
            /\ hist'.ret_state = state'.todo_state
            /\ ~IsNone(state'.todo_state)
            /\ IsNone(state.todo_state) =>
                    /\ state' = [state EXCEPT !.todo_state = Some(TodoState(NewTodoList))]
                    /\ hist'.created = hist.created + 1
            /\ ~IsNone(state.todo_state) =>
                    /\ state' = state
                    /\ hist'.created = hist.created
    /\ hist'.op /= "initialize_todo_state" =>
            /\ IsNone(state'.todo_state) <=> IsNone(state.todo_state)
            /\ hist'.created = hist.created

\* C15: initialize_todo_state is idempotent: the first call on an AgentState
\* creates the todo sub-state, every later call returns that same sub-state
\* with its contents untouched, so at most one is ever created and items added
\* between two calls are not lost.
C15_InitializeIdempotent ==
    [][InitializeStep]_vars /\ [](hist.created <= 1 /\ (hist.created = 1 <=> ~IsNone(state.todo_state)))

C15_Witness ==
    /\ hist.op = "initialize_todo_state"
    /\ hist.created = 1
    /\ hist.ret_state = state.todo_state
    /\ Len(TheList.items) = 2
    /\ TheList.items[2].completed

----------------------------------------------------------------------------
(* Properties of the conversation the engine builds *)

ToolMessages(msgs) == {p \in 1..Len(msgs) : msgs[p].role = "tool"}

\* the ids of the calls the assistant message at position a requests
IssuedAt(msgs, a) ==
    IF msgs[a].role = "assistant" /\ ~IsNone(msgs[a].tool_calls)
    THEN {Get(msgs[a].tool_calls)[i].id : i \in 1..Len(Get(msgs[a].tool_calls))}
    ELSE {}

\* the tool message at position p answers a call which an assistant message
\* before it has issued and which no tool message between the two has answered
AnswersIssuedCall(msgs, p) ==
    \E a \in 1..(p - 1) :
        /\ msgs[p].tool_call_id \in IssuedAt(msgs, a)
        /\ \A q \in (a + 1)..(p - 1) : msgs[q].tool_call_id /= msgs[p].tool_call_id

\* the assistant message the tool message at position p follows, with nothing
\* but tool messages between the two; 0 if there is none
AssistantBefore(msgs, p) ==
    IF \E a \in 1..(p - 1) : msgs[a].role = "assistant" /\ \A q \in (a + 1)..(p - 1) : msgs[q].role = "tool"
    THEN CHOOSE a \in 1..(p - 1) :
            msgs[a].role = "assistant" /\ \A q \in (a + 1)..(p - 1) : msgs[q].role = "tool"
    ELSE 0

\* the tool message at position p is the answer to the (p - a)-th call of the
\* assistant message at position a
AnswerTo(msgs, p, a) ==
    /\ a /= 0
    /\ ~IsNone(msgs[a].tool_calls)
    /\ p - a <= Len(Get(msgs[a].tool_calls))
    /\ msgs[p].tool_call_id = IF IsNone(Get(msgs[a].tool_calls)[p - a].id) THEN Some("unknown")
                              ELSE Get(msgs[a].tool_calls)[p - a].id
    /\ ~IsNone(Get(msgs[a].tool_calls)[p - a].id) => AnswersIssuedCall(msgs, p)

\* C16 as stated: every tool message carries the id of a call that the
\* assistant message before it, or an earlier one whose call was not yet
\* answered, has issued.
C16_AsStated == \A p \in ToolMessages(state.messages) : AnswersIssuedCall(state.messages, p)

\* C16 amended: every tool message answers a call of the assistant message
\* it follows; it carries the id of that call, issued and not answered before,
\* if the call record has an id, and the id 'unknown' if the record has none.
C16_ToolMessageIds ==
    \A p \in ToolMessages(state.messages) :
        AnswerTo(state.messages, p, AssistantBefore(state.messages, p))

C16_Witness ==
    /\ Len(dispatch_log) = 2
    /\ ~IsNone(dispatch_log[1].call.id)
    /\ dispatch_log[1].outcome.raised
    /\ IsNone(dispatch_log[2].call.id)
    /\ state.messages[Len(state.messages)].tool_call_id = Some("unknown")
    /\ state.messages[Len(state.messages) - 1].tool_call_id = dispatch_log[1].call.id

\* the calls all assistant messages of the conversation request, counted
RECURSIVE RequestedCalls(_, _)
RequestedCalls(msgs, n) ==
    IF n = 0 THEN 0
    ELSE RequestedCalls(msgs, n - 1)
         + (IF msgs[n].role = "assistant" /\ ~IsNone(msgs[n].tool_calls)
            THEN Len(Get(msgs[n].tool_calls)) ELSE 0)

\* every call an assistant message requests is answered by the message as far
\* behind it as the call is in the batch, and by no other
AnsweredOnce(msgs) ==
    /\ \A a \in 1..Len(msgs) :
          (msgs[a].role = "assistant" /\ ~IsNone(msgs[a].tool_calls)) =>
              /\ a + Len(Get(msgs[a].tool_calls)) <= Len(msgs)
              /\ \A i \in 1..Len(Get(msgs[a].tool_calls)) : msgs[a + i].role = "tool"
    /\ Cardinality(ToolMessages(msgs)) = RequestedCalls(msgs, Len(msgs))

\* a pass with k tool calls appends the assistant message and k tool messages
PassAppends ==
    /\ Len(state'.messages) = Len(state.messages) + 1 + Len(response'.tool_calls)
    /\ state'.messages[Len(state.messages) + 1].role = "assistant"
    /\ state'.messages[Len(state.messages) + 1].tool_calls = Some(response'.tool_calls)
    /\ \A i \in 1..Len(response'.tool_calls) : Answer(i).role = "tool"
    /\ Len(dispatch_log') = Len(response'.tool_calls)

\* C17 as stated: a pass whose response requests k tool calls appends exactly
\* k tool messages directly after its assistant message, the i-th carrying the
\* id of the i-th call, whichever way the call ended; in every state each
\* requested call has been answered exactly once and there are as many tool
\* messages as requested calls.
C17_AsStated ==
    /\ [][ToolPass =>
            /\ PassAppends
            /\ \A i \in 1..Len(response'.tool_calls) :
                  Answer(i).tool_call_id = response'.tool_calls[i].id]_vars
    /\ [](AnsweredOnce(state.messages))

\* C17 amended: the same, the i-th tool message carrying the id of the i-th
\* call if the call record has one and the id 'unknown' if it has none.
C17_OneAnswerPerCall ==
    /\ [][ToolPass =>
            /\ PassAppends
            /\ \A i \in 1..Len(response'.tool_calls) :
                  Answer(i).tool_call_id =
                      IF IsNone(response'.tool_calls[i].id) THEN Some("unknown")
                      ELSE response'.tool_calls[i].id]_vars
    /\ [](AnsweredOnce(state.messages))
    /\ [](Cardinality(ToolMessages(state.messages)) = hist.tool_calls)

C17_Witness ==
    /\ pc = "backend"
    /\ hist.backend_calls = 2
    /\ Len(dispatch_log) = 2
    /\ Unparsable(dispatch_log[1].call)
    /\ ~IsNone(dispatch_log[1].call.id)
    /\ dispatch_log[2].dispatched
    /\ dispatch_log[2].outcome.raised
    /\ Cardinality(ToolMessages(state.messages)) = 2

\* the reasons stop_execution may be called with
Reasons == {"max_iterations_reached", "user_abort"}

\* stop_execution on the state as it is: the flag goes down, a reason given is
\* recorded, nothing else changes, and stopping a stopped state keeps it stopped
Stops ==
    /\ \A r \in Reasons :
          /\ ~stop_execution(state, Some(r)).should_continue
          /\ stop_execution(state, Some(r)).metadata["stop_reason"] = r
          /\ stop_execution(state, Some(r)) =
                [state EXCEPT !.should_continue = FALSE,
                              !.metadata = ("stop_reason" :> r) @@ @]
          /\ ~stop_execution(stop_execution(state, Some(r)), None).should_continue
    /\ stop_execution(state, None) = [state EXCEPT !.should_continue = FALSE]
    /\ stop_execution(state, Some("")) = [state EXCEPT !.should_continue = FALSE]

\* a stopped state stays stopped and is not handed to the backend again; the
\* hard stop, which goes through stop_execution, records its reason
StoppedStep ==
    /\ ~state.should_continue =>
            /\ ~state'.should_continue
            /\ pc' /= "backend"
            /\ hist'.backend_calls = 0
            /\ hist'.passes = 0
            /\ state'.iteration_count = state.iteration_count
            /\ state'.metadata = state.metadata
    /\ (state.should_continue /\ ~state'.should_continue) =>
            /\ pc' = "returned"
            /\ StopReason' = "max_iterations_reached" <=> state'.iteration_count >= max_iterations

\* C18: stopping is terminal: once should_continue is false no later engine
\* operation, a further run() call included, sets it back to true, and the
\* backend is never called again on that state; stop_execution(reason) also
\* records the reason under metadata['stop_reason'].
C18_StoppingIsTerminal ==
    /\ [][StoppedStep]_vars
    /\ [](pc = "backend" => state.should_continue)
    /\ [](Stops)

C18_Witness ==
    /\ Returned_
    /\ hist.runs = 2
    /\ hist.passes = 0
    /\ ~state.should_continue
    /\ StopReason = ""
    /\ state.iteration_count < max_iterations

\* the run that has returned made passes and ended because the backend
\* answered its last call without tool calls and with should_continue = FALSE
Completed ==
    /\ Returned_
    /\ TheResult.success
    /\ hist.passes > 0
    /\ ~has_tool_calls(response)
    /\ ~response.should_continue

\* C19 as stated: after a successful run the stop reason is
\* max_iterations_reached exactly when the budget ended the run, and it is not
\* when the run ended by genuine completion, on whichever pass that happened.
C19_AsStated == Completed => StopReason /= "max_iterations_reached"

\* C19 amended: after a successful run that made at least one pass the stop
\* reason is max_iterations_reached exactly when the last pass brought the
\* counter to max_iterations, whatever the last response was; a completion on
\* an earlier pass leaves no stop reason, a completion on the pass that
\* reaches max_iterations is reported as budget exhaustion.
C19_StopReason ==
    /\ (Returned_ /\ TheResult.success /\ hist.passes > 0) =>
            /\ StopReason = "max_iterations_reached" <=> state.iteration_count >= max_iterations
            /\ StopReason \in {"", "max_iterations_reached"}
            /\ state.iteration_count < max_iterations => Completed
            /\ "stop_reason" \in DOMAIN TheResult.final_output <=> StopReason /= ""
    /\ (Completed /\ state.iteration_count < max_iterations) => StopReason = ""
    /\ (Completed /\ state.iteration_count >= max_iterations) => StopReason = "max_iterations_reached"

C19_Witness ==
    /\ Completed
    /\ hist.passes = 1
    /\ hist.entry_count = 0
    /\ max_iterations = 2
    /\ StopReason = ""
    /\ ~state.should_continue

\* the conversation before a step is the beginning of the one after it
Extends(before, after) ==
    /\ Len(before) <= Len(after)
    /\ \A i \in 1..Len(before) : after[i] = before[i]

\* every step appends: a run() call its prompt first, a backend answer the
\* assistant message first, a backend fault nothing
AppendStep ==
    /\ Extends(state.messages, state'.messages)
    /\ hist'.runs > hist.runs =>
            /\ Len(state'.messages) = Len(state.messages) + 1
            /\ state'.messages[Len(state.messages) + 1] = Message("user", Prompt, None, None)
    /\ (hist'.passes > hist.passes /\ ~hist'.backend_raised) =>
            /\ Len(state'.messages) = Len(state.messages) + 1 + Len(response'.tool_calls)
            /\ state'.messages[Len(state.messages) + 1].role = "assistant"
    /\ (hist'.passes > hist.passes /\ hist'.backend_raised) => state'.messages = state.messages

\* C20: the conversation log is append-only: every engine step leaves all
\* existing messages unchanged and in place, within a run and across run()
\* calls on the same engine, where a second call appends its prompt to the
\* same AgentState.
C20_AppendOnly == [][AppendStep]_vars

C20_Witness ==
    /\ hist.runs = 2
    /\ pc = "returned"
    /\ Len(state.messages) = 4
    /\ state.messages[1].role = "user"
    /\ state.messages[2].role = "assistant"
    /\ state.messages[3].role = "tool"
    /\ state.messages[4] = Message("user", Prompt, None, None)

----------------------------------------------------------------------------
(* The registry of agentic_task under single calls of execute_tool, the     *)
(* way line 195 of engine.py calls it: the todo tools work on the list of    *)
(* state.todo_state.                                                          *)

ToolNames == {"tree", "read_file", "todo_view", "todo_edit", "todo_add", "nonexistent"}

\* the keyword arguments of a call
ToolArguments ==
    << EmptyDict,
       [path |-> "a.py"],
       [path |-> "missing.py"],
       [text |-> "a"],
       [text |-> " b "],
       [text |-> " "],
       [text |-> ""],
       [number |-> 1],
       [number |-> 1, completed |-> TRUE],
       [number |-> 2, completed |-> FALSE],
       [number |-> 1, text |-> "b"],
       [number |-> 1, text |-> " "],
       [number |-> 2, text |-> ""],
       [number |-> MaxTodos + 1, completed |-> TRUE],
       [name |-> "x"] >>

ToolsInit ==
    /\ state = initialize_todo_state(AgentState(0))
    /\ tools = AgenticRegistry
    /\ max_iterations = 0
    /\ pc = "idle"
    /\ response = NoResponse
    /\ success = TRUE
    /\ result = None
    /\ dispatch_log = <<>>
    /\ hist = [name |-> "", args |-> 0, out |-> NotDispatched]

\* the call has ended as `ran`
ToolLands(name, args, ran) ==
    /\ state' = store_todo_list(state, ran.todo)
    /\ hist' = [name |-> name, args |-> args, out |-> ran.out]

\* self.tools.execute_tool(function_name, arguments)
ExecuteTool ==
    /\ \E name \in ToolNames, args \in 1..Len(ToolArguments) :
          /\ name = "todo_add" => Len(shared_todo_list(state).items) < MaxTodos
          /\ ToolLands(name, args,
                       execute_tool(tools, name, ToolArguments[args], shared_todo_list(state)))
    /\ UNCHANGED <<tools, max_iterations, pc, response, success, result, dispatch_log>>

ToolsNext == ExecuteTool

ToolsSpec == ToolsInit /\ [][ToolsNext]_vars

\* the ToolResult the last call of execute_tool returned, where it returned one
ToolReturned == hist.args /= 0 /\ ~hist.out.raised
LastResult == hist.out.value

ToolResultWellFormed(r) ==
    /\ ~r.success => IsNone(r.data) /\ ~IsNone(r.error)
    /\ r.success => IsNone(r.error)

\* C21: every ToolResult that execute_tool returns is well-formed: a failure
\* carries an error and no data, a success carries no error.  This covers
\* the registry's own failure results (unknown name, wrapped exception) and
\* the results of the todo tools.
C21_ToolResultsWellFormed == ToolReturned => ToolResultWellFormed(LastResult)

\* a wrapped exception: todo_edit called without its required number
C21_Witness ==
    /\ ToolReturned
    /\ hist.name = "todo_edit"
    /\ ToolArguments[hist.args] = [text |-> "a"]
    /\ ~LastResult.success
    /\ ~IsNone(LastResult.error)

----------------------------------------------------------------------------
(* The order of a loop pass, under Spec *)

Assistants(msgs) == {p \in 1..Len(msgs) : msgs[p].role = "assistant"}

\* a step that ends at a backend call / in which the backend returned
BackendCalled == pc' = "backend"
BackendAnswered == hist'.passes > hist.passes /\ ~hist'.backend_raised

\* the counter goes up by one with each backend call and at no other time
\* (a step that ends at a backend call made the increment just before it);
\* a backend answer appends one assistant message, first, and tool messages
\* after it; a backend fault appends nothing
PassOrderStep ==
    /\ state'.iteration_count = state.iteration_count + (IF BackendCalled THEN 1 ELSE 0)
    /\ hist'.passes > hist.passes => pc = "backend"
    /\ BackendAnswered =>
            /\ Len(state'.messages) > Len(state.messages)
            /\ state'.messages[Len(state.messages) + 1] =
                    Message("assistant", response'.message,
                            IF response'.tool_calls /= <<>> THEN Some(response'.tool_calls) ELSE None,
                            None)
            /\ Cardinality(Assistants(state'.messages)) = Cardinality(Assistants(state.messages)) + 1
            /\ \A p \in (Len(state.messages) + 2)..Len(state'.messages) :
                    state'.messages[p].role = "tool"
    /\ (hist'.passes > hist.passes /\ hist'.backend_raised) => state'.messages = state.messages

\* on a fresh state: as many backend calls as the counter says, and one
\* assistant message per backend call that has returned
PassCounts ==
    FreshRun =>
        /\ hist.backend_calls = state.iteration_count
        /\ Cardinality(Assistants(state.messages)) =
                state.iteration_count - (IF pc = "backend" \/ hist.backend_raised THEN 1 ELSE 0)
        /\ Returned_ =>
                Cardinality(Assistants(state.messages)) =
                    IF TheResult.success THEN state.iteration_count ELSE state.iteration_count - 1

\* C22: a loop pass runs in a fixed order: the counter is incremented exactly
\* once before the backend call; after the backend returns exactly one
\* assistant message is appended, unconditionally and before any tool
\* executes.  On a fresh state the number of backend calls equals
\* iteration_count, and the number of assistant messages equals
\* iteration_count when the run succeeds and iteration_count - 1 when the
\* backend raised.
C22_PassOrder == [][PassOrderStep]_vars /\ [](PassCounts)

\* a fresh run whose second backend call raised: two calls, one assistant message
C22_Witness ==
    /\ Returned_
    /\ FreshRun
    /\ ~TheResult.success
    /\ state.iteration_count = 2
    /\ hist.backend_calls = 2
    /\ Cardinality(Assistants(state.messages)) = 1

----------------------------------------------------------------------------
(* The continuation flag, under Spec *)

\* the safety check of lines 131-136 fires on the pass whose backend call was
\* counted last: at the backend call the counter already includes the pass
HardStop == StopReason' = "max_iterations_reached" /\ state.iteration_count >= max_iterations

\* the branch of lines 118-127 by itself: without tool calls the flag takes
\* the backend's value, whatever it was before
HintAdopted ==
    \A b \in BOOLEAN :
        no_tool_calls(state, AgentResponse(Lit(""), <<>>, b)) = [state EXCEPT !.should_continue = b]

\* what a step does to the flag: after a pass without tool calls it is the
\* backend's value unless the safety check of the same pass has stopped the
\* run; a pass with tool calls, a backend fault and a call of run() leave it
\* alone, the safety check apart
FlagStep ==
    /\ (BackendAnswered /\ ~ToolPass) =>
            state'.should_continue =
                (response'.should_continue /\ state.iteration_count < max_iterations)
    /\ (BackendAnswered /\ ToolPass) =>
            state'.should_continue =
                (state.should_continue /\ state.iteration_count < max_iterations)
    /\ ~BackendAnswered => state'.should_continue = state.should_continue
    /\ (state.should_continue /\ ~state'.should_continue) =>
            \/ BackendAnswered /\ ~ToolPass /\ ~response'.should_continue
            \/ BackendAnswered /\ HardStop

\* C23: in a pass without tool calls should_continue after the branch equals
\* the backend's value; a pass with tool calls leaves should_continue as it
\* was.  During a run the flag becomes false in two ways only: a false hint
\* is adopted, or the hard stop fires.
C23_ContinuationFlag == [][FlagStep]_vars /\ [](HintAdopted)

\* a false hint adopted on a pass that does not reach the budget
C23_Witness ==
    /\ Returned_
    /\ hist.passes = 1
    /\ ~has_tool_calls(response)
    /\ ~response.should_continue
    /\ ~state.should_continue
    /\ state.iteration_count < max_iterations
    /\ StopReason = ""

----------------------------------------------------------------------------
(* files_explored, under Spec *)

\* the paths of the calls of the pass that were dispatched to read_file with
\* a path argument and came back with success
ReadPaths(log) ==
    {json_loads(log[i].call.arguments).value["path"] :
        i \in {j \in 1..Len(log) :
                  /\ log[j].dispatched
                  /\ ~log[j].outcome.raised
                  /\ log[j].outcome.value.success
                  /\ log[j].call.name = "read_file"
                  /\ "path" \in DOMAIN json_loads(log[j].call.arguments).value}}

\* a pass adds the paths its successful reads name and nothing else; no
\* other step changes the set
ExplorationStep ==
    /\ state.files_explored \subseteq state'.files_explored
    /\ (BackendAnswered /\ ToolPass) =>
            state'.files_explored = state.files_explored \cup ReadPaths(dispatch_log')
    /\ ~(BackendAnswered /\ ToolPass) => state'.files_explored = state.files_explored

\* lines 197-201 for a tool other than read_file that succeeds on a path
OthersUntracked ==
    \A name \in ToolNames \ {"read_file"}, path \in ProjectFiles \cup ProjectDirs :
        track_exploration(state, name, [path |-> path],
                          ToolResult(TRUE, Some(Data("dict", <<"path", path>>)), None)) = state

\* C24: files_explored grows monotonically within a run and holds no
\* duplicates.  A path is added only when a dispatched call of read_file
\* returned success and had a path argument; a failed read_file, a call with
\* a parse error, a call of an unknown tool and a call of another tool add
\* nothing, and reading the same path again leaves the set unchanged.
C24_FilesExplored ==
    [][ExplorationStep]_vars /\ [](state.files_explored \subseteq ProjectFiles /\ OthersUntracked)

\* the same file read by both calls of a batch
C24_Witness ==
    /\ Len(dispatch_log) = 2
    /\ ReadPaths(dispatch_log) = {"a.py"}
    /\ \A i \in 1..2 : dispatch_log[i].dispatched /\ dispatch_log[i].outcome.value.success
    /\ state.files_explored = {"a.py"}
    /\ Cardinality(state.files_explored) = 1

----------------------------------------------------------------------------
(* The engine on a state its caller has prepared: AgentEngine takes any      *)
(* AgentState as its state, with or without a todo sub-state and with        *)
(* whatever the use case has put into the metadata bag.                      *)

CoreFields == {"agent_summary", "iterations_used", "conversation_length",
               "exploration_summary", "files_explored", "todo_list", "todo_stats"}

\* metadata bags of a use case: empty, a key of its own, and keys that are
\* also names of core fields
SeedMetadata ==
    << EmptyDict,
       [task |-> "plan"],
       [iterations_used |-> 99],
       [agent_summary |-> Lit("seeded")],
       [todo_list |-> "seeded"] >>

Seeded(with_todo, metadata) ==
    [(IF with_todo THEN initialize_todo_state(AgentState(0)) ELSE AgentState(0))
        EXCEPT !.metadata = metadata]

SeededInit ==
    /\ \E with_todo \in BOOLEAN, m \in 1..Len(SeedMetadata) :
          state = Seeded(with_todo, SeedMetadata[m])
    /\ tools = AgenticRegistry
    /\ max_iterations \in 0..MaxIter
    /\ pc = "idle"
    /\ response = NoResponse
    /\ success = TRUE
    /\ result = None
    /\ dispatch_log = <<>>
    /\ hist = [runs |-> 0, passes |-> 0, backend_calls |-> 0, tool_calls |-> 0,
               entry_count |-> 0, at_call |-> <<>>, results |-> 0,
               backend_raised |-> FALSE, idle_only |-> TRUE]

SeededSpec == SeededInit /\ [][Next]_vars

Output == TheResult.final_output

\* C25: on every successful return final_output is a derived view of the
\* final state: agent_summary is the content of the most recent assistant
\* message (the placeholder 'No final message' if there is none),
\* iterations_used equals state.iteration_count, conversation_length equals
\* the number of messages, and the keys todo_list and todo_stats are present
\* if and only if a todo sub-state was initialized.
C25_AsStated ==
    (Returned_ /\ TheResult.success) =>
        /\ Output["agent_summary"] =
                IF Assistants(state.messages) = {} THEN Lit("No final message")
                ELSE state.messages[CHOOSE p \in Assistants(state.messages) :
                                        \A q \in Assistants(state.messages) : q <= p].content
        /\ Output["iterations_used"] = state.iteration_count
        /\ Output["conversation_length"] = Len(state.messages)
        /\ "todo_list" \in DOMAIN Output <=> ~IsNone(state.todo_state)
        /\ "todo_stats" \in DOMAIN Output <=> ~IsNone(state.todo_state)

\* what lines 276-287 have built before the metadata is merged in
Built == extract_final_output([state EXCEPT !.metadata = EmptyDict])

\* C26: metadata is strictly additive in the final output: merging
\* state.metadata adds keys but never changes the value of a core field,
\* whatever keys the metadata bag holds.
C26_AsStated ==
    (Returned_ /\ TheResult.success) =>
        /\ DOMAIN Output = DOMAIN Built \cup DOMAIN state.metadata
        /\ \A k \in CoreFields \cap DOMAIN Built : Output[k] = Built[k]

----------------------------------------------------------------------------
(* _format_tool_result on the results a tool may hand back: ToolResult      *)
(* takes any data value, and Tool is open to tools of the caller.            *)

\* data values by Python type: None, {"k": "v"}, {}, "text", "", ["x"], []
FormatData ==
    {None, Some(Data("dict", <<"k", "v">>)), Some(Data("dict", <<>>)),
     Some(Data("str", <<"text">>)), Some(Data("str", <<>>)),
     Some(Data("list", <<"x">>)), Some(Data("list", <<>>))}

FormatErrors == {None, Some(Lit("boom")), Some(Fmt("File '{}' does not exist", <<"missing.py">>))}

FormatNames == {"read_file", "todo_view", "mock_tool"}

FormatInit ==
    /\ state = AgentState(0)
    /\ tools = AgenticRegistry
    /\ max_iterations = 0
    /\ pc = "idle"
    /\ response = NoResponse
    /\ success = TRUE
    /\ result = None
    /\ dispatch_log = <<>>
    /\ \E ok \in BOOLEAN, data \in FormatData, error \in FormatErrors, name \in FormatNames :
          hist = [result |-> ToolResult(ok, data, error), tool_name |-> name, content |-> None]

\* result_content = self._format_tool_result(result, function_name)
FormatToolResult ==
    /\ IsNone(hist.content)
    /\ hist' = [hist EXCEPT !.content = Some(format_tool_result(hist.result, hist.tool_name))]
    /\ UNCHANGED <<state, tools, max_iterations, pc, response, success, result, dispatch_log>>

FormatNext == FormatToolResult

FormatSpec == FormatInit /\ [][FormatNext]_vars

\* the rendering of a data value: json.dumps for a dict, the value itself
\* for a str, str() for anything else
Rendering(data) ==
    IF data.type = "dict" THEN Fmt("json.dumps(indent=2)", data.items) ELSE Fmt("{}", data.items)

Marker(tool_name) == Fmt("{} executed successfully", <<tool_name>>)

\* C27: for a successful ToolResult whose data is present (not None) the
\* tool message content is a rendering of that data, and the generic marker
\* '<tool> executed successfully' is used only when data is absent; for a
\* failed ToolResult the content is the error string verbatim prefixed with
\* 'Error: '.
C27_AsStated ==
    ~IsNone(hist.content) =>
        /\ (hist.result.success /\ ~IsNone(hist.result.data)) =>
                Get(hist.content) = Rendering(Get(hist.result.data))
        /\ Get(hist.content) = Marker(hist.tool_name) =>
                hist.result.success /\ IsNone(hist.result.data)
        /\ (~hist.result.success /\ ~IsNone(hist.result.error)) =>
                Get(hist.content) = Prefixed("Error: ", Get(hist.result.error))

----------------------------------------------------------------------------
(* The engine of agentic_task with a backend that plans: its tool calls are *)
(* calls of the todo tools, as in the mock responses of test_agentic_task.   *)

PlanCalls ==
    { <<"todo_add", "{\"text\": \"a\"}">>,
      <<"todo_add", "{\"text\": \" b \"}">>,
      <<"todo_add", "{\"text\": \" \"}">>,
      <<"todo_view", "{}">>,
      <<"todo_edit", "{\"number\": 1, \"completed\": true}">>,
      <<"todo_edit", "{\"number\": 2, \"text\": \"a\"}">>,
      <<"todo_edit", "{\"number\": 1}">> }

PlanBatches(n, issued) ==
    {[i \in 1..n |-> ToolCall(Some("call_" \o ToString(issued + i)), calls[i][1], calls[i][2])] :
        calls \in [1..n -> PlanCalls]}

\* generate_with_tools returns an AgentResponse: the rest of the pass
PlanReturns ==
    /\ pc = "backend"
    /\ \E message \in ResponseTexts, should_continue \in BOOLEAN, n \in 0..MaxBatch :
          /\ hist.tool_calls + n <= MaxToolCalls
          /\ \E tool_calls \in PlanBatches(n, hist.tool_calls) :
                /\ response' = AgentResponse(Lit(message), tool_calls, should_continue)
                /\ Lands(loop_pass(state, tools, max_iterations, response', success),
                         [hist EXCEPT !.passes = @ + 1, !.tool_calls = @ + n,
                                      !.idle_only = @ /\ n = 0 /\ should_continue])
    /\ UNCHANGED <<tools, max_iterations>>

PlanNext == RunCall \/ PlanReturns \/ BackendRaises

PlanSpec == Init /\ [][PlanNext]_vars

\* a todo operation applied to a list by itself: the list it leaves if it
\* succeeds, the list as it was if it is rejected
Ran(call, tl) == execute_tool(AgenticRegistry, call.name, json_loads(call.arguments).value, tl)
Applied(call, tl) == IF Ran(call, tl).out.value.success THEN Ran(call, tl).todo ELSE tl

\* the list after the first k of the calls, one after the other
RECURSIVE Replayed(_, _, _)
Replayed(tl, calls, k) == IF k = 0 THEN tl ELSE Applied(calls[k], Replayed(tl, calls, k - 1))

\* the calls the assistant messages of the conversation request, in order
RECURSIVE AllCalls(_, _)
AllCalls(msgs, n) ==
    IF n = 0 THEN <<>>
    ELSE AllCalls(msgs, n - 1)
         \o (IF msgs[n].role = "assistant" /\ ~IsNone(msgs[n].tool_calls)
             THEN Get(msgs[n].tool_calls) ELSE <<>>)

AddSucceeded(entry) ==
    entry.call.name = "todo_add" /\ entry.dispatched /\ entry.outcome.value.success

\* the number a successful todo_add reports
AddedNumber(entry) ==
    CHOOSE k \in 1..(MaxToolCalls + 1) : ToString(k) = Get(entry.outcome.value.data).items[2]

\* call i of the batch meets the list the calls before it have left
SeesEarlier(before, calls, log, i) ==
    /\ log[i].call = calls[i]
    /\ log[i].outcome = Ran(calls[i], Replayed(before, calls, i - 1)).out

\* a pass runs its calls in request order on the one list; nothing else
\* touches the list
InOrderStep ==
    /\ (BackendAnswered /\ ToolPass) =>
            /\ Len(dispatch_log') = Len(response'.tool_calls)
            /\ \A i \in 1..Len(response'.tool_calls) :
                    SeesEarlier(shared_todo_list(state), response'.tool_calls, dispatch_log', i)
            /\ shared_todo_list(state') =
                    Replayed(shared_todo_list(state), response'.tool_calls, Len(response'.tool_calls))
            /\ \A i, j \in 1..Len(dispatch_log') :
                    (i < j /\ AddSucceeded(dispatch_log'[i]) /\ AddSucceeded(dispatch_log'[j])) =>
                        AddedNumber(dispatch_log'[i]) < AddedNumber(dispatch_log'[j])
    /\ ~(BackendAnswered /\ ToolPass) => state'.todo_state = state.todo_state

\* the list is what the successful operations of the conversation make of an
\* empty list, applied in the order of their request, and final_output shows it
ReflectsOperations ==
    /\ shared_todo_list(state) =
            Replayed(NewTodoList, AllCalls(state.messages, Len(state.messages)),
                     Len(AllCalls(state.messages, Len(state.messages))))
    /\ (Returned_ /\ TheResult.success) =>
            /\ Output["todo_list"] = TodoList_to_markdown(shared_todo_list(state))
            /\ Output["todo_stats"] = TodoList_get_stats(shared_todo_list(state))

\* C28: the tool calls of one batch execute one at a time, strictly in
\* request order, against the single todo list shared by the todo tools and
\* the AgentState: of two todo_add calls in one batch the earlier gets the
\* smaller number, a later call in the same batch (todo_view, todo_edit)
\* observes the effects of the earlier ones, and the todo_list in
\* final_output reflects exactly the successful todo operations of the run
\* in that order.
C28_BatchInOrder == [][InOrderStep]_vars /\ [](ReflectsOperations)

\* one batch: todo_add, then a todo_edit of the item just added
C28_Witness ==
    /\ Returned_
    /\ TheResult.success
    /\ Len(dispatch_log) = 2
    /\ AddSucceeded(dispatch_log[1])
    /\ AddedNumber(dispatch_log[1]) = 1
    /\ dispatch_log[2].call.name = "todo_edit"
    /\ dispatch_log[2].outcome.value.success
    /\ shared_todo_list(state).items = <<TodoItem(1, "a", TRUE)>>
    /\ Output["todo_list"] = TodoList_to_markdown(shared_todo_list(state))

----------------------------------------------------------------------------
(* Rejected todo operations, under ToolsSpec *)

\* the keyword arguments of the call made in the step
CallArgs == ToolArguments[hist'.args]

Has(kwargs, k) == k \in DOMAIN kwargs

\* a todo_add call with a text that is empty or blank
BlankAdd ==
    /\ hist'.name = "todo_add"
    /\ DOMAIN CallArgs = {"text"}
    /\ strip(CallArgs["text"]) = ""

\* a todo_edit call that names a field to change
EditCall ==
    /\ hist'.name = "todo_edit"
    /\ Has(CallArgs, "number")
    /\ DOMAIN CallArgs \subseteq {"number", "completed", "text"}

AbsentEdit ==
    /\ EditCall
    /\ DOMAIN CallArgs /= {"number"}
    /\ \A i \in 1..Len(shared_todo_list(state).items) :
            shared_todo_list(state).items[i].number /= CallArgs["number"]

EmptyEdit == EditCall /\ DOMAIN CallArgs = {"number"}

Rejected == ~hist'.out.raised /\ ~hist'.out.value.success

\* the three rejections return a failure; a call that is rejected, for
\* whatever reason, leaves the todo sub-state as it was
RejectedStep ==
    /\ (BlankAdd \/ AbsentEdit \/ EmptyEdit) => Rejected
    /\ Rejected => state'.todo_state = state.todo_state
    /\ Rejected => shared_todo_list(state').next_number = shared_todo_list(state).next_number

\* C29: a rejected todo operation changes nothing: todo_add with empty or
\* whitespace-only text, todo_edit with a number that is not in the list, and
\* todo_edit given neither completed nor text each return
\* ToolResult(success=false) and leave the items, their texts and flags and
\* the next-number counter unchanged; a rejected add does not use a number up.
C29_RejectedChangesNothing == [][RejectedStep]_vars

\* a blank todo_add rejected on a list that already holds an item
C29_Witness ==
    /\ hist.name = "todo_add"
    /\ hist.args /= 0
    /\ ToolArguments[hist.args] = [text |-> " "]
    /\ ~hist.out.raised
    /\ ~hist.out.value.success
    /\ Len(shared_todo_list(state).items) = 1
    /\ shared_todo_list(state).next_number = 2

\* C30: every item of a todo list that is changed only through the todo
\* tools (todo_add, todo_edit) has non-blank text at all times: no sequence
\* of tool calls leaves an item whose text is empty or whitespace-only.
C30_AsStated ==
    \A i \in 1..Len(shared_todo_list(state).items) :
        strip(shared_todo_list(state).items[i].text) /= ""

====
